---- MODULE Spec2Model ----
(***************************************************************************)
(* User accounts and session tokens of the geographic REST API:           *)
(* users/queries.py (user store access), users/auth.py (password hashing, *)
(* authentication, JWT issuance and validation, Authorization header).    *)
(*                                                                         *)
(* Strings are sequences of one-character strings.  Time is counted in    *)
(* clock ticks, TicksPerSecond ticks to the second, so that the           *)
(* truncation of a timestamp to whole seconds is visible.                 *)
(***************************************************************************)
EXTENDS Integers, Sequences, FiniteSets, TLC

VARIABLES users, nextId, nextSalt, now, held, call, hashed, inflight, secret

vars ==
  <<users, nextId, nextSalt, now, held, call, hashed, inflight, secret>>

(***************************************************************************)
(* Bounds of the model.                                                    *)
(***************************************************************************)
MaxUsers == 2
MaxHashes == 3
MaxRegisterHashes == 2
MaxProcs == 2
MaxCount == 2
MaxClock == 4
TicksPerSecond == 2

(***************************************************************************)
(* Optional values and exceptions.                                         *)
(***************************************************************************)
None == [kind |-> "None"]
Some(x) == [kind |-> "Some", val |-> x]
Raise(e) == [kind |-> "Raise", exc |-> e]

(***************************************************************************)
(* str.lower() and str.strip().                                            *)
(***************************************************************************)
IsSpace(c) == c \in {" ", "\t", "\n"}

UpperAlphabet ==
  <<"A", "B", "C", "D", "E", "F", "G", "H", "I", "J", "K", "L", "M",
    "N", "O", "P", "Q", "R", "S", "T", "U", "V", "W", "X", "Y", "Z">>

LowerAlphabet ==
  <<"a", "b", "c", "d", "e", "f", "g", "h", "i", "j", "k", "l", "m",
    "n", "o", "p", "q", "r", "s", "t", "u", "v", "w", "x", "y", "z">>

UpperLetters == { UpperAlphabet[i] : i \in DOMAIN UpperAlphabet }
LowerLetters == { LowerAlphabet[i] : i \in DOMAIN LowerAlphabet }
Digits == { "0", "1", "2", "3", "4", "5", "6", "7", "8", "9" }

LowerChar(c) ==
  IF c \in UpperLetters
    THEN LowerAlphabet[CHOOSE i \in DOMAIN UpperAlphabet : UpperAlphabet[i] = c]
    ELSE c

Lower(s) == [i \in 1..Len(s) |-> LowerChar(s[i])]

RECURSIVE LStrip(_)
LStrip(s) == IF s # <<>> /\ IsSpace(Head(s)) THEN LStrip(Tail(s)) ELSE s

RECURSIVE RStrip(_)
RStrip(s) ==
  IF s # <<>> /\ IsSpace(s[Len(s)]) THEN RStrip(SubSeq(s, 1, Len(s) - 1)) ELSE s

Strip(s) == RStrip(LStrip(s))

(***************************************************************************)
(* Inputs: e-mail spellings, user names, passwords.                        *)
(***************************************************************************)
Emails ==
  { <<"a", "@", "x">>, <<"A", "@", "X">>, <<" ", "a", "@", "x", " ">>,
    <<"b", "@", "x">> }

Usernames == { <<"u", "1">>, <<"u", "2">> }

Passwords == { <<"P", "w", "1">>, <<"P", "w", "2">> }

(***************************************************************************)
(* bcrypt: a hash string carries its salt; checkpw recomputes the digest   *)
(* of the candidate under that salt.  bcrypt reads the first 72 bytes of   *)
(* the password.                                                           *)
(***************************************************************************)
BcryptKey(p) == SubSeq(p, 1, IF Len(p) < 72 THEN Len(p) ELSE 72)

hashpw(p, salt) == [salt |-> salt, digest |-> <<salt, BcryptKey(p)>>]

checkpw(p, h) == hashpw(p, h.salt) = h

\* a stored string bcrypt cannot parse as a hash: checkpw raises ValueError
InvalidSalt(h) == DOMAIN h # {"salt", "digest"}

\* mutant: one salt for every call
hash_password_fixedsalt(p, salt) == hashpw(p, 0)

\* hash_password: a fresh salt per call
hash_password(p, salt) == hashpw(p, salt)

(***************************************************************************)
(* The users collection: documents in insertion order.  ObjectIds are      *)
(* numbers; their string form is a string of digits.                       *)
(***************************************************************************)
Digit(n) == CASE n = 0 -> "0" [] n = 1 -> "1" [] n = 2 -> "2" [] n = 3 -> "3"
              [] n = 4 -> "4" [] n = 5 -> "5" [] n = 6 -> "6" [] n = 7 -> "7"
              [] n = 8 -> "8" [] OTHER -> "9"

ObjectIdStr(n) == <<Digit((n \div 10) % 10), Digit(n % 10)>>

\* dbc.read_one with an equality filter on one field: the first match
read_one(coll, field, value) ==
  LET idx == { i \in 1..Len(coll) : coll[i][field] = value }
  IN IF idx = {} THEN None
     ELSE Some(coll[CHOOSE i \in idx : \A j \in idx : i <= j])

\* dbc.delete with an equality filter on one field: the first match goes
delete(coll, field, value) ==
  LET idx == { i \in 1..Len(coll) : coll[i][field] = value }
  IN IF idx = {} THEN coll
     ELSE LET k == CHOOSE i \in idx : \A j \in idx : i <= j
          IN SubSeq(coll, 1, k - 1) \o SubSeq(coll, k + 1, Len(coll))

\* dbc.convert_mongo_id: the document with its _id as a string
convert_mongo_id(doc) == [doc EXCEPT !._id = ObjectIdStr(doc._id)]

\* mutant: the email is looked up as spelled
get_user_by_email_exact(coll, email) ==
  LET user == read_one(coll, "email", email)
  IN IF user # None THEN Some(convert_mongo_id(user.val)) ELSE user

\* users.queries.get_user_by_email
get_user_by_email(coll, email) ==
  LET user == read_one(coll, "email", Strip(Lower(email)))
  IN IF user # None THEN Some(convert_mongo_id(user.val)) ELSE user

\* bson.ObjectId(s): the id a string of the right length and digits spells,
\* InvalidId for any other string
ObjectId(s) ==
  IF Len(s) = 2 /\ \A i \in 1..2 : s[i] \in Digits
    THEN Some(10 * (CHOOSE n \in 0..9 : Digit(n) = s[1])
              + (CHOOSE n \in 0..9 : Digit(n) = s[2]))
    ELSE Raise("InvalidId")

\* mutant: without the try
get_user_by_id_notry(coll, user_id) ==
  IF ObjectId(user_id).kind = "Raise" THEN ObjectId(user_id)
  ELSE LET user == read_one(coll, "_id", ObjectId(user_id).val)
       IN IF user # None THEN Some(convert_mongo_id(user.val)) ELSE user

\* users.queries.get_user_by_id
get_user_by_id(coll, user_id) ==
  IF ObjectId(user_id).kind = "Raise" THEN None
  ELSE LET user == read_one(coll, "_id", ObjectId(user_id).val)
       IN IF user # None THEN Some(convert_mongo_id(user.val)) ELSE user

\* users.queries.user_exists (one keyword at a time, as create_user calls it)
user_exists_email(coll, email) ==
  email # <<>> /\ read_one(coll, "email", Strip(Lower(email))) # None

user_exists_username(coll, username) ==
  username # <<>> /\ read_one(coll, "username", Strip(username)) # None

(***************************************************************************)
(* JSON claim values of a token payload.  A payload is a record of the     *)
(* four claims the service uses; a claim may be absent or null.            *)
(***************************************************************************)
StrClaim(s) == [t |-> "str", v |-> s]
IntClaim(n) == [t |-> "int", v |-> n]
Absent == [t |-> "absent"]
Null == [t |-> "null"]

\* datetime -> NumericDate as jwt.encode converts it: whole seconds
Timestamp(t) == t \div TicksPerSecond

(***************************************************************************)
(* base64url.  A well-formed text is determined by the bytes it encodes    *)
(* and by the bits of its last character that carry no data (slack); the   *)
(* encoder writes them as zero and the decoder does not read them.         *)
(***************************************************************************)
NotBase64 == [bad |-> "base64"]
NotJson == [raw |-> "not json"]
OtherBytes == [raw |-> "other bytes"]

base64url_encode(bytes) == [bytes |-> bytes, slack |-> 0]

base64url_decode(text) ==
  IF text = NotBase64 THEN Raise("DecodeError") ELSE Some(text.bytes)

(***************************************************************************)
(* HS256 and the compact serialization.  A token string is the sequence    *)
(* of its dot-separated segments.                                          *)
(***************************************************************************)
\* the module global SECRET_KEY: os.getenv('JWT_SECRET', default) at load
DEFAULT_SECRET == "your-default-secret-change-in-production"
OTHER_KEY == "some-other-secret"
SECRET_KEY == secret

JwtHeader == [alg |-> "HS256", typ |-> "JWT"]

\* HMAC-SHA256, collision free: the digest names its key and message
hmac_sha256(key, msg) == [key |-> key, msg |-> msg]

jwt_encode(payload, key) ==
  LET h == base64url_encode(JwtHeader)
      p == base64url_encode(payload)
  IN <<h, p, base64url_encode(hmac_sha256(key, <<h, p>>))>>

IsPayload(bytes) == DOMAIN bytes = {"user_id", "email", "exp", "iat"}

\* int(payload[claim]) of PyJWT's claim validation
ClaimInt(c) ==
  IF c.t = "int" THEN Some(c.v)
  ELSE IF c.t = "str" THEN Raise("ValueError") ELSE Raise("TypeError")

\* PyJWT _validate_claims: iat first, then exp, each only when present
validate_claims(payload, t) ==
  LET iat == ClaimInt(payload.iat)
      exp == ClaimInt(payload.exp)
  IN IF payload.iat # Absent /\ iat.kind = "Raise"
       THEN (IF iat.exc = "ValueError" THEN Raise("InvalidIssuedAtError") ELSE iat)
     ELSE IF payload.iat # Absent /\ iat.val * TicksPerSecond > t
       THEN Raise("ImmatureSignatureError")
     ELSE IF payload.exp # Absent /\ exp.kind = "Raise"
       THEN (IF exp.exc = "ValueError" THEN Raise("DecodeError") ELSE exp)
     ELSE IF payload.exp # Absent /\ exp.val * TicksPerSecond <= t
       THEN Raise("ExpiredSignatureError")
     ELSE Some(payload)

\* jwt.decode(token, key, algorithms=['HS256']) at clock reading t
jwt_decode(token, key, t) ==
  IF Len(token) # 3 THEN Raise("DecodeError")
  ELSE LET h == base64url_decode(token[1])
           p == base64url_decode(token[2])
           s == base64url_decode(token[3])
       IN IF h.kind = "Raise" \/ h.val # JwtHeader THEN Raise("DecodeError")
          ELSE IF p.kind = "Raise" \/ s.kind = "Raise" THEN Raise("DecodeError")
          ELSE IF s.val # hmac_sha256(key, <<token[1], token[2]>>)
            THEN Raise("InvalidSignatureError")
          ELSE IF ~IsPayload(p.val) THEN Raise("DecodeError")
          ELSE validate_claims(p.val, t)

InvalidTokenError ==
  { "DecodeError", "InvalidSignatureError", "ExpiredSignatureError",
    "ImmatureSignatureError", "InvalidIssuedAtError", "InvalidAlgorithmError" }

\* mutant: the email claim is filled with the user id
generate_token_wrongemail(user_id, email, expires_in, t1, t2) ==
  jwt_encode([user_id |-> StrClaim(user_id),
              email |-> StrClaim(user_id),
              exp |-> IntClaim(Timestamp(t1 + expires_in * TicksPerSecond)),
              iat |-> IntClaim(Timestamp(t2))],
             SECRET_KEY)

\* users.auth.generate_token; t1 and t2 are the two readings of utcnow()
generate_token(user_id, email, expires_in, t1, t2) ==
  jwt_encode([user_id |-> StrClaim(user_id),
              email |-> StrClaim(email),
              exp |-> IntClaim(Timestamp(t1 + expires_in * TicksPerSecond)),
              iat |-> IntClaim(Timestamp(t2))],
             SECRET_KEY)

\* mutant: decoding with options verify_signature=False
validate_token_unverified(token, t) ==
  IF Len(token) # 3 \/ token[2] = NotBase64 \/ ~IsPayload(token[2].bytes)
    THEN None
    ELSE LET r == validate_claims(token[2].bytes, t)
         IN IF r.kind = "Raise" /\ r.exc \in InvalidTokenError THEN None ELSE r

\* mutant: decoding with options verify_exp=False
validate_token_noexp(token, t) ==
  LET r == jwt_decode(token, SECRET_KEY, t)
  IN IF r.kind = "Raise" /\ r.exc \in InvalidTokenError
       THEN (IF r.exc = "ExpiredSignatureError"
               THEN Some(token[2].bytes) ELSE None)
       ELSE r

\* mutant: a token whose subject has no record is refused
validate_token_revocable(token, t) ==
  LET r == jwt_decode(token, SECRET_KEY, t)
  IN IF r.kind = "Raise" /\ r.exc \in InvalidTokenError THEN None
     ELSE IF r.kind = "Some"
             /\ \A i \in DOMAIN users : StrClaim(ObjectIdStr(users[i]._id)) # r.val.user_id
       THEN None
     ELSE r

\* mutant: the signature is verified with the key the token was signed with
validate_token_issuerkey(token, t) ==
  LET key == IF Len(token) = 3 /\ token[3] # NotBase64
                  /\ DOMAIN token[3].bytes = {"key", "msg"}
               THEN token[3].bytes.key ELSE SECRET_KEY
      r == jwt_decode(token, key, t)
  IN IF r.kind = "Raise" /\ r.exc \in InvalidTokenError THEN None ELSE r

\* users.auth.validate_token
validate_token(token, t) ==
  LET r == jwt_decode(token, SECRET_KEY, t)
  IN IF r.kind = "Raise" /\ r.exc \in InvalidTokenError THEN None ELSE r

(***************************************************************************)
(* users.queries.create_user: the outcome and the collection after it.     *)
(***************************************************************************)
\* the duplicate checks: the exception raised, or None
create_user_check(coll, email, username) ==
  IF user_exists_email(coll, email)
    THEN Raise("ValueError: already exists")
  ELSE IF user_exists_username(coll, username)
    THEN Raise("ValueError: already taken")
  ELSE None

\* the insert that follows them
create_user_insert(coll, email, username, password_hash, oid, t) ==
  LET user_doc == [_id |-> oid,
                   email |-> Strip(Lower(email)),
                   username |-> Strip(username),
                   password |-> password_hash,
                   created_at |-> t,
                   updated_at |-> t]
  IN [result |-> Some(convert_mongo_id(user_doc)),
      coll |-> Append(coll, user_doc)]

create_user(coll, email, username, password_hash, oid, t) ==
  IF create_user_check(coll, email, username) # None
    THEN [result |-> create_user_check(coll, email, username), coll |-> coll]
    ELSE create_user_insert(coll, email, username, password_hash, oid, t)

(***************************************************************************)
(* users.auth.authenticate_user; t1 and t2 are the clock readings of the   *)
(* token it generates.                                                     *)
(***************************************************************************)
DEFAULT_EXPIRES_IN == 3600

\* mutant: the copy keeps every field
WithoutPassword_keep(user) == user

WithoutPassword(user) == [k \in DOMAIN user \ {"password"} |-> user[k]]

\* mutant: the password is not verified
authenticate_user_nocheck(coll, email, password, t1, t2) ==
  LET user == get_user_by_email(coll, email)
  IN IF user = None THEN None
     ELSE Some([token |-> generate_token(user.val._id, email,
                                         DEFAULT_EXPIRES_IN, t1, t2),
                user_data |-> WithoutPassword(user.val)])

authenticate_user(coll, email, password, t1, t2) ==
  LET user == get_user_by_email(coll, email)
  IN IF user = None THEN None
     ELSE IF InvalidSalt(user.val.password) THEN Raise("ValueError: Invalid salt")
     ELSE IF ~checkpw(password, user.val.password) THEN None
     ELSE Some([token |-> generate_token(user.val._id, email,
                                         DEFAULT_EXPIRES_IN, t1, t2),
                user_data |-> WithoutPassword(user.val)])

(***************************************************************************)
(* Python values of a request field: a string, None or a number.           *)
(***************************************************************************)
PyStr(s) == [t |-> "str", v |-> s]
PyNone == [t |-> "NoneType"]
PyInt(n) == [t |-> "int", v |-> n]

\* `not x or not isinstance(x, str)`
NotAString(x) == x.t # "str" \/ x.v = <<>>

\* the positions at which `$` matches: the end, or just before a final "\n"
RegexEnds(s) ==
  {Len(s)} \cup (IF s # <<>> /\ s[Len(s)] = "\n" THEN {Len(s) - 1} ELSE {})

AllIn(s, from, to, class) == \A i \in from..to : s[i] \in class

(***************************************************************************)
(* users.queries.validate_email, validate_username, validate_password.     *)
(* The result is the pair (is_valid, error_message).                       *)
(***************************************************************************)
Verdict(valid, msg) == [valid |-> valid, msg |-> msg]

MIN_PASSWORD_LENGTH == 8
MAX_PASSWORD_LENGTH == 128

EmailLocalChars ==
  UpperLetters \cup LowerLetters \cup Digits \cup {".", "_", "%", "+", "-"}

EmailDomainChars == UpperLetters \cup LowerLetters \cup Digits \cup {".", "-"}

\* re.match(r'^[a-zA-Z0-9._%+-]+@[a-zA-Z0-9.-]+\.[a-zA-Z]{2,}$', s)
MatchEmailPattern(s) ==
  \E e \in RegexEnds(s) : \E i \in 2..e : \E j \in (i + 2)..(e - 2) :
    /\ AllIn(s, 1, i - 1, EmailLocalChars)
    /\ s[i] = "@"
    /\ AllIn(s, i + 1, j - 1, EmailDomainChars)
    /\ s[j] = "."
    /\ AllIn(s, j + 1, e, UpperLetters \cup LowerLetters)

\* re.match(r'^[a-zA-Z0-9_]+$', s)
MatchUsernamePattern(s) ==
  \E e \in RegexEnds(s) :
    e >= 1 /\ AllIn(s, 1, e, UpperLetters \cup LowerLetters \cup Digits \cup {"_"})

\* re.search of a one-character class
SearchChar(s, class) == \E i \in 1..Len(s) : s[i] \in class

\* mutant: the argument is stripped without the isinstance test
validate_email_nocheck(email) ==
  IF email.t # "str" THEN Raise("AttributeError")
  ELSE LET e == Strip(email.v)
       IN IF Len(e) < 3 \/ Len(e) > 254
            THEN Verdict(FALSE, "Email must be between 3 and 254 characters")
          ELSE IF ~MatchEmailPattern(e)
            THEN Verdict(FALSE, "Invalid email format")
          ELSE Verdict(TRUE, "")

validate_email(email) ==
  IF NotAString(email) THEN Verdict(FALSE, "Email is required")
  ELSE LET e == Strip(email.v)
       IN IF Len(e) < 3 \/ Len(e) > 254
            THEN Verdict(FALSE, "Email must be between 3 and 254 characters")
          ELSE IF ~MatchEmailPattern(e)
            THEN Verdict(FALSE, "Invalid email format")
          ELSE Verdict(TRUE, "")

\* mutant: the length is tested before stripping
validate_username_nostrip(username) ==
  IF NotAString(username) THEN Verdict(FALSE, "Username is required")
  ELSE LET u == username.v
       IN IF Len(u) < 3 \/ Len(u) > 30
            THEN Verdict(FALSE, "Username must be between 3 and 30 characters")
          ELSE IF ~MatchUsernamePattern(Strip(u))
            THEN Verdict(FALSE,
                   "Username can only contain letters, numbers, and underscores")
          ELSE Verdict(TRUE, "")

validate_username(username) ==
  IF NotAString(username) THEN Verdict(FALSE, "Username is required")
  ELSE LET u == Strip(username.v)
       IN IF Len(u) < 3 \/ Len(u) > 30
            THEN Verdict(FALSE, "Username must be between 3 and 30 characters")
          ELSE IF ~MatchUsernamePattern(u)
            THEN Verdict(FALSE,
                   "Username can only contain letters, numbers, and underscores")
          ELSE Verdict(TRUE, "")

\* mutant: the upper bound is tested with >=
validate_password_offbyone(password) ==
  IF NotAString(password) THEN Verdict(FALSE, "Password is required")
  ELSE IF Len(password.v) < MIN_PASSWORD_LENGTH
    THEN Verdict(FALSE, "Password must be at least 8 characters")
  ELSE IF Len(password.v) >= MAX_PASSWORD_LENGTH
    THEN Verdict(FALSE, "Password must be at most 128 characters")
  ELSE IF ~SearchChar(password.v, UpperLetters)
    THEN Verdict(FALSE, "Password must contain at least one uppercase letter")
  ELSE IF ~SearchChar(password.v, LowerLetters)
    THEN Verdict(FALSE, "Password must contain at least one lowercase letter")
  ELSE IF ~SearchChar(password.v, Digits)
    THEN Verdict(FALSE, "Password must contain at least one number")
  ELSE Verdict(TRUE, "")

validate_password(password) ==
  IF NotAString(password) THEN Verdict(FALSE, "Password is required")
  ELSE IF Len(password.v) < MIN_PASSWORD_LENGTH
    THEN Verdict(FALSE, "Password must be at least 8 characters")
  ELSE IF Len(password.v) > MAX_PASSWORD_LENGTH
    THEN Verdict(FALSE, "Password must be at most 128 characters")
  ELSE IF ~SearchChar(password.v, UpperLetters)
    THEN Verdict(FALSE, "Password must contain at least one uppercase letter")
  ELSE IF ~SearchChar(password.v, LowerLetters)
    THEN Verdict(FALSE, "Password must contain at least one lowercase letter")
  ELSE IF ~SearchChar(password.v, Digits)
    THEN Verdict(FALSE, "Password must contain at least one number")
  ELSE Verdict(TRUE, "")

(***************************************************************************)
(* server.endpoints.Register.post: the response (body, status), the        *)
(* collection after it and the number of hash_password calls it made.      *)
(***************************************************************************)
Response(status, body) == [status |-> status, body |-> body]

\* the part of the handler after validation
register_create(coll, email, username, password, salt, oid, t) ==
  LET password_hash == hash_password(password.v, salt)
      r == create_user(coll, email.v, username.v, password_hash, oid, t)
  IN IF r.result.kind = "Raise"
       THEN [response |-> Response(400, [error |-> r.result.exc]),
             coll |-> r.coll, hashes |-> 1]
       ELSE [response |->
               Response(201, [message |-> "User created successfully",
                              user_id |-> r.result.val._id]),
             coll |-> r.coll, hashes |-> 1]

\* mutant: the password is validated first
register_passwordfirst(coll, email, username, password, salt, oid, t) ==
  IF ~validate_password(password).valid
    THEN [response |-> Response(400, [error |-> validate_password(password).msg]),
          coll |-> coll, hashes |-> 0]
  ELSE IF ~validate_username(username).valid
    THEN [response |-> Response(400, [error |-> validate_username(username).msg]),
          coll |-> coll, hashes |-> 0]
  ELSE IF ~validate_email(email).valid
    THEN [response |-> Response(400, [error |-> validate_email(email).msg]),
          coll |-> coll, hashes |-> 0]
  ELSE register_create(coll, email, username, password, salt, oid, t)

register(coll, email, username, password, salt, oid, t) ==
  IF ~validate_email(email).valid
    THEN [response |-> Response(400, [error |-> validate_email(email).msg]),
          coll |-> coll, hashes |-> 0]
  ELSE IF ~validate_username(username).valid
    THEN [response |-> Response(400, [error |-> validate_username(username).msg]),
          coll |-> coll, hashes |-> 0]
  ELSE IF ~validate_password(password).valid
    THEN [response |-> Response(400, [error |-> validate_password(password).msg]),
          coll |-> coll, hashes |-> 0]
  ELSE register_create(coll, email, username, password, salt, oid, t)

(***************************************************************************)
(* server.endpoints.Login.post.                                            *)
(***************************************************************************)
\* authenticate_user on the values of a request body: email.lower() and
\* password.encode() raise AttributeError on a value that is no string, the
\* second only once a record was found
authenticate_user_py(coll, email, password, t1, t2) ==
  IF email.t # "str" THEN Raise("AttributeError")
  ELSE IF password.t # "str"
    THEN (IF get_user_by_email(coll, email.v) = None
            THEN None ELSE Raise("AttributeError"))
  ELSE authenticate_user(coll, email.v, password.v, t1, t2)

login(coll, email, password, t1, t2) ==
  LET result == authenticate_user_py(coll, email, password, t1, t2)
  IN IF result.kind = "Raise" THEN Response(500, [error |-> result.exc])
     ELSE IF result = None
       THEN Response(401, [error |-> "Invalid credentials"])
     ELSE Response(200, [token |-> result.val.token,
                         user |-> result.val.user_data])

(***************************************************************************)
(* server.endpoints.Health.get.  db_status is what dbc.ping() returned;    *)
(* env gives, for each step of the statistics gathering in order           *)
(* (get_client, the three count_documents, the dbStats command), its       *)
(* result or the exception it raises.                                      *)
(***************************************************************************)
Collections == <<"countries", "states", "cities">>

EmptyDict == [k \in {} |-> k]

\* dict.get('ok') read as a truth value
DictGetOk(d) == "ok" \in DOMAIN d /\ d.ok = TRUE

\* the first step that raises, 0 when none does
FirstRaise(env) ==
  IF \A i \in DOMAIN env : env[i].kind # "Raise" THEN 0
  ELSE CHOOSE i \in DOMAIN env :
         /\ env[i].kind = "Raise"
         /\ \A j \in DOMAIN env : env[j].kind = "Raise" => i <= j

HealthBody(overall, db_status, collections_stats, db_stats, total_docs, t) ==
  [status |-> overall, timestamp |-> t, unix |-> t, db |-> db_status,
   collections |-> collections_stats, database_stats |-> db_stats,
   total_documents |-> total_docs]

\* mutant: the except branch leaves the overall status as it was
health_keepstatus(db_status, env, t) ==
  LET overall == IF DictGetOk(db_status) THEN "ok" ELSE "degraded"
  IN IF FirstRaise(env) # 0
       THEN Response(200, HealthBody(overall, db_status,
              [error |-> <<"Failed to gather collection stats: ",
                           env[FirstRaise(env)].exc>>],
              EmptyDict, 0, t))
       ELSE Response(200, HealthBody(overall, db_status,
              [c \in {"countries", "states", "cities"} |->
                 [count |-> env[1 + CHOOSE i \in 1..3 : Collections[i] = c].val,
                  name |-> c]],
              env[5].val,
              env[2].val + env[3].val + env[4].val, t))

health(db_status, env, t) ==
  LET overall == IF DictGetOk(db_status) THEN "ok" ELSE "degraded"
  IN IF FirstRaise(env) # 0
       THEN Response(200, HealthBody("degraded", db_status,
              [error |-> <<"Failed to gather collection stats: ",
                           env[FirstRaise(env)].exc>>],
              EmptyDict, 0, t))
       ELSE Response(200, HealthBody(overall, db_status,
              [c \in {"countries", "states", "cities"} |->
                 [count |-> env[1 + CHOOSE i \in 1..3 : Collections[i] = c].val,
                  name |-> c]],
              env[5].val,
              env[2].val + env[3].val + env[4].val, t))

(***************************************************************************)
(* users.auth.verify_token_header.  A header is a string in which the one  *)
(* character TOK stands for the text of a token (which has no white        *)
(* space).                                                                 *)
(***************************************************************************)
TOK == "<token>"

RECURSIVE WordEnd(_, _)
WordEnd(s, i) == IF i > Len(s) \/ IsSpace(s[i]) THEN i ELSE WordEnd(s, i + 1)

\* str.split() with no separator: the maximal runs of non-space characters
RECURSIVE Split(_)
Split(s) ==
  LET r == LStrip(s)
  IN IF r = <<>> THEN <<>>
     ELSE LET n == WordEnd(r, 1)
          IN <<SubSeq(r, 1, n - 1)>> \o Split(SubSeq(r, n, Len(r)))

\* the token string a word of the header spells
TokenOfText(word, token) == IF word = <<TOK>> THEN token ELSE <<NotBase64>>

\* mutant: the scheme is compared as written
verify_token_header_cs(authorization_header, token, t) ==
  IF authorization_header = <<>> THEN None
  ELSE LET parts == Split(authorization_header)
       IN IF Len(parts) # 2 \/ parts[1] # <<"B", "e", "a", "r", "e", "r">>
            THEN None
          ELSE validate_token(TokenOfText(parts[2], token), t)

verify_token_header(authorization_header, token, t) ==
  IF authorization_header = <<>> THEN None
  ELSE LET parts == Split(authorization_header)
       IN IF Len(parts) # 2 \/ Lower(parts[1]) # <<"b", "e", "a", "r", "e", "r">>
            THEN None
          ELSE validate_token(TokenOfText(parts[2], token), t)

(***************************************************************************)
(* Inputs of the token operations.                                         *)
(***************************************************************************)
UserIds == { ObjectIdStr(1) }

TokenEmails == { <<"a", "@", "x">>, <<"A", "@", "X">> }

ExpiresIn == { -1, 0, 1, 2 }

\* the texts that differ from a base64url text in one character
ReplaceChar(text, others) ==
  { [bytes |-> text.bytes, slack |-> k] : k \in (0..3) \ {text.slack} }
    \cup { [bytes |-> b, slack |-> text.slack] : b \in others \ {text.bytes} }
    \cup { NotBase64 }

\* payloads other than the token's own that a changed character may spell
AlteredPayloads(payload) ==
  { NotJson, [payload EXCEPT !.exp = IntClaim(MaxClock + 1)] }

TamperPayload(token) ==
  { [token EXCEPT ![2] = x] :
      x \in ReplaceChar(token[2], AlteredPayloads(token[2].bytes)) }

TamperSignature(token) ==
  { [token EXCEPT ![3] = x] : x \in ReplaceChar(token[3], {OtherBytes}) }

\* hand-made token strings
BasePayload ==
  [user_id |-> StrClaim(ObjectIdStr(1)), email |-> StrClaim(<<"a", "@", "x">>),
   exp |-> IntClaim(MaxClock + 1), iat |-> IntClaim(0)]

CraftedPayloads ==
  { BasePayload,
    [BasePayload EXCEPT !.user_id = Absent],
    [BasePayload EXCEPT !.email = Absent],
    [BasePayload EXCEPT !.exp = Absent],
    [BasePayload EXCEPT !.iat = Absent],
    [BasePayload EXCEPT !.exp = Null],
    [BasePayload EXCEPT !.iat = Null],
    [BasePayload EXCEPT !.exp = StrClaim(<<"x">>)],
    [BasePayload EXCEPT !.exp = IntClaim(1)],
    [BasePayload EXCEPT !.iat = IntClaim(MaxClock + 1)] }

EmptyText == [bytes |-> [raw |-> ""], slack |-> 0]

Malformed ==
  LET good == jwt_encode(BasePayload, SECRET_KEY)
      junk == base64url_encode(NotJson)
  IN { <<EmptyText>>,
       <<good[1], good[2]>>,
       good \o <<good[3]>>,
       [good EXCEPT ![1] = NotBase64],
       [good EXCEPT ![2] = NotBase64],
       [good EXCEPT ![3] = NotBase64],
       [good EXCEPT ![1] = junk],
       <<good[1], junk,
         base64url_encode(hmac_sha256(SECRET_KEY, <<good[1], junk>>))>> }

Crafted ==
  { jwt_encode(p, k) : p \in CraftedPayloads, k \in {SECRET_KEY, OTHER_KEY} }
    \cup Malformed

\* Authorization header values around one token
Bearer == <<"B", "e", "a", "r", "e", "r">>

Headers ==
  { <<>>,
    <<TOK>>,
    <<" ">>,
    Bearer,
    Bearer \o <<TOK>>,
    Bearer \o <<" ", TOK>>,
    <<"b", "e", "a", "r", "e", "r", " ", TOK>>,
    <<"B", "E", "A", "R", "E", "R", " ", TOK>>,
    <<"T", "o", "k", "e", "n", " ", TOK>>,
    Bearer \o <<" ", " ", TOK>>,
    Bearer \o <<"\t", TOK>>,
    <<" ">> \o Bearer \o <<" ", TOK>>,
    Bearer \o <<" ", TOK, " ">>,
    Bearer \o <<" ", TOK, " ", TOK>> }

(***************************************************************************)
(* The state machine.  held is the token a client holds (the latest one    *)
(* issued) with the arguments it was issued for; call is the latest call   *)
(* and its outcome.                                                        *)
(***************************************************************************)
\* the callers of create_user that run at the same time, and what one
\* that is between its duplicate check and its insert will insert
Procs == 1..MaxProcs

Idle == [pc |-> "idle"]

Init ==
  /\ users = <<>>
  /\ nextId = 1
  /\ nextSalt = 1
  /\ now = 0
  /\ held = None
  /\ call = [op |-> "none"]
  /\ hashed = <<>>
  /\ inflight = [p \in Procs |-> Idle]
  /\ secret = DEFAULT_SECRET

\* the clock advances
Tick ==
  /\ now < MaxClock
  /\ now' = now + 1
  /\ call' = [op |-> "none"]
  /\ UNCHANGED <<users, nextId, nextSalt, held, hashed, inflight, secret>>

\* hash_password(password) followed by create_user(email, username, hash)
CreateUser ==
  \E email \in Emails, username \in Usernames, password \in Passwords :
    /\ Len(users) < MaxUsers
    /\ nextSalt <= MaxHashes
    /\ LET r == create_user(users, email, username,
                            hash_password(password, nextSalt), nextId, now)
       IN /\ users' = r.coll
          /\ nextId' = IF r.result.kind = "Some" THEN nextId + 1 ELSE nextId
          /\ call' = [op |-> "create_user", email |-> email,
                      username |-> username, password |-> password,
                      result |-> r.result]
    /\ nextSalt' = nextSalt + 1
    /\ UNCHANGED <<now, held, hashed, inflight, secret>>

\* authenticate_user(email, password); d is the time generate_token takes
\* between its two readings of the clock
AuthenticateWith(emails, passwords, delays) ==
  \E email \in emails, password \in passwords, d \in delays :
    /\ now + d <= MaxClock
    /\ LET r == authenticate_user(users, email, password, now, now + d)
       IN /\ call' = [op |-> "authenticate_user", email |-> email,
                      password |-> password, at |-> now, result |-> r]
          /\ now' = IF r.kind = "Some" THEN now + d ELSE now
    /\ UNCHANGED <<users, nextId, nextSalt, held, hashed, inflight, secret>>

\* mutant: a successful login stamps the record
Authenticate_stamping ==
  \E email \in Emails, password \in Passwords :
    /\ LET r == authenticate_user(users, email, password, now, now)
       IN /\ call' = [op |-> "authenticate_user", email |-> email,
                      password |-> password, at |-> now, result |-> r]
          /\ users' = IF r.kind # "Some" THEN users
                      ELSE [i \in DOMAIN users |->
                              IF users[i].email = Strip(Lower(email))
                                THEN [users[i] EXCEPT !.updated_at = now]
                                ELSE users[i]]
    /\ UNCHANGED <<nextId, nextSalt, now, held, hashed, inflight, secret>>

Authenticate == AuthenticateWith(Emails, Passwords, {0, 1})

\* generate_token(user_id, email, expires_in)
GenerateToken ==
  \E user_id \in UserIds, email \in TokenEmails, expires_in \in ExpiresIn,
     d \in {0, 1} :
    /\ now + d <= MaxClock
    /\ now' = now + d
    /\ LET token == generate_token(user_id, email, expires_in, now, now + d)
       IN /\ held' = Some([token |-> token, user_id |-> user_id,
                           email |-> email, expires_in |-> expires_in,
                           issued_at |-> now])
          /\ call' = [op |-> "generate_token", result |-> token]
    /\ UNCHANGED <<users, nextId, nextSalt, hashed, inflight, secret>>

Validate(src, token) ==
  /\ call' = [op |-> "validate_token", src |-> src, token |-> token,
              of |-> held, at |-> now, result |-> validate_token(token, now)]
  /\ UNCHANGED <<users, nextId, nextSalt, now, held, hashed, inflight, secret>>

\* validate_token on the held token
ValidateHeld ==
  /\ held # None
  /\ Validate("held", held.val.token)

\* validate_token on the held token with one character of its payload
\* segment replaced
ValidateTamperedPayload ==
  /\ held # None
  /\ \E token \in TamperPayload(held.val.token) : Validate("payload", token)

\* validate_token on the held token with one character of its signature
\* segment replaced
ValidateTamperedSignature ==
  /\ held # None
  /\ \E token \in TamperSignature(held.val.token) : Validate("signature", token)

\* validate_token on a hand-made string
ValidateCrafted ==
  \E token \in Crafted : Validate("crafted", token)

\* verify_token_header on a header around the held token
VerifyHeader ==
  /\ held # None
  /\ \E header \in Headers :
       call' = [op |-> "verify_token_header", header |-> header,
                token |-> held.val.token, at |-> now,
                result |-> verify_token_header(header, held.val.token, now)]
  /\ UNCHANGED <<users, nextId, nextSalt, now, held, hashed, inflight, secret>>

(***************************************************************************)
(* Inputs of the validators.                                               *)
(***************************************************************************)
Rep(c, n) == [i \in 1..n |-> c]

\* the strings over an alphabet of at most three characters
Cores(alphabet) == UNION { [1..n -> alphabet] : n \in 0..3 }

NonStrings == { PyNone, PyInt(0), PyInt(7) }

PasswordInputs ==
  { PyStr(core \o Rep("-", k)) :
      core \in Cores({"A", "a", "1"}), k \in {0, 5, 7, 125, 126} }
    \cup { PyStr(Rep(" ", 8)) } \cup NonStrings

UsernameInputs ==
  { PyStr(lead \o core \o Rep("b", k) \o trail) :
      lead \in { <<>>, <<" ">> }, core \in Cores({"a", "_", "1", "@"}),
      k \in {0, 1, 27, 28}, trail \in { <<>>, <<" ">>, <<"\n">> } }
    \cup { PyStr(<<"a", " ", "b">>), PyStr(<<"U", "s", "e", "r", "9">>) }
    \cup NonStrings

EmailInputs ==
  { PyStr(lead \o local \o at \o domain \o dot \o tld \o trail) :
      lead \in { <<>>, <<" ">> },
      local \in { <<>>, <<"a">>, <<"A", ".", "b">>, <<"a", "!">> },
      at \in { <<"@">>, <<>>, <<"@", "@">> },
      domain \in { <<>>, <<"x">>, <<"x", "-", "y">>, <<"x", "_">>,
                   <<"x", ".", "c", "o">> },
      dot \in { <<".">>, <<>> },
      tld \in { <<>>, <<"i">>, <<"i", "o">>, <<"i", "1">>, <<"C", "o", "m">> },
      trail \in { <<>>, <<" ">>, <<"\n">> } }
    \cup { PyStr(Rep("a", k) \o <<"@", "x", ".", "i", "o">>) : k \in {249, 250} }
    \cup { PyStr(Rep(" ", k)) : k \in 1..4 }
    \cup NonStrings

\* The validators are pure: each behaviour applies one of them to one input.

\* validate_email(email)
ValidateEmail ==
  /\ call.op = "none"
  /\ \E email \in EmailInputs :
       call' = [op |-> "validate_email", arg |-> email,
                result |-> validate_email(email)]
  /\ UNCHANGED <<users, nextId, nextSalt, now, held, hashed, inflight, secret>>

\* validate_username(username)
ValidateUsername ==
  /\ call.op = "none"
  /\ \E username \in UsernameInputs :
       call' = [op |-> "validate_username", arg |-> username,
                result |-> validate_username(username)]
  /\ UNCHANGED <<users, nextId, nextSalt, now, held, hashed, inflight, secret>>

\* validate_password(password)
ValidatePassword ==
  /\ call.op = "none"
  /\ \E password \in PasswordInputs :
       call' = [op |-> "validate_password", arg |-> password,
                result |-> validate_password(password)]
  /\ UNCHANGED <<users, nextId, nextSalt, now, held, hashed, inflight, secret>>

(***************************************************************************)
(* Registration requests and the logins that follow them.                  *)
(***************************************************************************)
\* 73 characters, the first 72 common to every choice of the last
LongPassword(last) == <<"A", "a", "1">> \o Rep("x", 69) \o <<last>>

RegisterEmails ==
  { PyStr(<<"a", "@", "x", ".", "i", "o">>),
    PyStr(<<" ", "A", "@", "X", ".", "I", "O">>),
    PyStr(<<"b", "@", "x", ".", "i", "o">>),
    PyStr(<<"a", "@", "x">>), PyNone }

RegisterUsernames ==
  { PyStr(<<"u", "_", "1">>), PyStr(<<"u", "_", "2">>), PyNone }

RegisterPasswords ==
  { PyStr(LongPassword("y")), PyStr(LongPassword("z")),
    PyStr(<<"P", "a", "s", "s", "w", "0", "r", "d">>), PyNone }

\* the strings among the values
Texts(values) == { x.v : x \in { y \in values : y.t = "str" } }

\* POST /register with a JSON body; a key the body lacks reads as None
Register ==
  \E email \in RegisterEmails, username \in RegisterUsernames,
     password \in RegisterPasswords :
    /\ Len(users) < MaxUsers
    /\ nextSalt <= MaxRegisterHashes
    /\ LET r == register(users, email, username, password,
                         nextSalt, nextId, now)
       IN /\ users' = r.coll
          /\ nextId' = IF Len(r.coll) > Len(users) THEN nextId + 1 ELSE nextId
          /\ nextSalt' = nextSalt + r.hashes
          /\ hashed' = IF r.hashes = 0 THEN hashed
                       ELSE Append(hashed,
                                   [password |-> password.v,
                                    hash |-> hash_password(password.v,
                                                           nextSalt)])
          /\ call' = [op |-> "register", email |-> email,
                      username |-> username, password |-> password,
                      result |-> r.response]
    /\ UNCHANGED <<now, held, inflight, secret>>

(***************************************************************************)
(* The store called directly, as the tests of users.queries call it.       *)
(***************************************************************************)
SAMPLE_HASH == [raw |-> "hashed_password_here"]

StoreEmails == Emails \cup { <<>>, <<" ">> }

StoreUsernames == Usernames \cup { <<" ", "u", "1", " ">>, <<>> }

\* create_user(email, username, password_hash)
CreateUserFrom(emails, usernames) ==
  \E email \in emails, username \in usernames :
    /\ Len(users) < MaxUsers
    /\ nextId <= MaxUsers
    /\ LET r == create_user(users, email, username, SAMPLE_HASH, nextId, now)
       IN /\ users' = r.coll
          /\ nextId' = IF r.result.kind = "Some" THEN nextId + 1 ELSE nextId
          /\ call' = [op |-> "create_user", email |-> email,
                      username |-> username, result |-> r.result]
    /\ UNCHANGED <<nextSalt, now, held, hashed, inflight, secret>>

CreateUserDirect == CreateUserFrom(StoreEmails, StoreUsernames)

\* get_user_by_email(email)
GetUserByEmail ==
  \E email \in StoreEmails :
    /\ call' = [op |-> "get_user_by_email", email |-> email,
                result |-> get_user_by_email(users, email)]
    /\ UNCHANGED <<users, nextId, nextSalt, now, held, hashed, inflight, secret>>

\* create_user in a caller of its own, up to the end of its duplicate checks
BeginCreateUser(p) ==
  \E email \in Emails, username \in Usernames :
    /\ inflight[p] = Idle
    /\ Len(users) < MaxUsers
    /\ LET c == create_user_check(users, email, username)
       IN IF c # None
            THEN /\ call' = [op |-> "create_user", email |-> email,
                             username |-> username, result |-> c]
                 /\ UNCHANGED inflight
            ELSE /\ inflight' = [inflight EXCEPT ![p] =
                                  [pc |-> "insert", email |-> email,
                                   username |-> username]]
                 /\ UNCHANGED call
    /\ UNCHANGED <<users, nextId, nextSalt, now, held, hashed, secret>>

\* the rest of that call: the insert and the return
EndCreateUser(p) ==
  /\ inflight[p] # Idle
  /\ LET r == create_user_insert(users, inflight[p].email,
                                 inflight[p].username, SAMPLE_HASH,
                                 nextId, now)
     IN /\ users' = r.coll
        /\ call' = [op |-> "create_user", email |-> inflight[p].email,
                    username |-> inflight[p].username, result |-> r.result]
  /\ nextId' = nextId + 1
  /\ inflight' = [inflight EXCEPT ![p] = Idle]
  /\ UNCHANGED <<nextSalt, now, held, hashed, secret>>

\* ids of the width of the model's ObjectIds, and strings that are no ids
IdInputs ==
  { ObjectIdStr(n) : n \in 1..(MaxUsers + 1) }
    \cup { <<>>, <<"1">>, <<"0", "1", "1">>, <<"0", "x">>,
           <<"i", "n", "v", "a", "l", "i", "d", "_", "i", "d">> }

\* get_user_by_id(user_id)
GetUserById ==
  \E user_id \in IdInputs :
    /\ call' = [op |-> "get_user_by_id", user_id |-> user_id,
                result |-> get_user_by_id(users, user_id)]
    /\ UNCHANGED <<users, nextId, nextSalt, now, held, hashed, inflight, secret>>

\* POST /login with a JSON body; a key the body lacks reads as None
LoginEmails == { PyStr(e) : e \in Emails } \cup { PyNone }

LoginPasswords == { PyStr(p) : p \in Passwords } \cup { PyNone }

Login ==
  \E email \in LoginEmails, password \in LoginPasswords :
    /\ call' = [op |-> "login", email |-> email, password |-> password,
                at |-> now, result |-> login(users, email, password, now, now)]
    /\ UNCHANGED <<users, nextId, nextSalt, now, held, hashed, inflight, secret>>

(***************************************************************************)
(* The health endpoint.                                                    *)
(***************************************************************************)
PingResults ==
  { [ok |-> TRUE], [ok |-> FALSE, error |-> "ServerSelectionTimeoutError"],
    EmptyDict }

DbStats ==
  [database |-> "seDB", collections |-> 3, data_size_bytes |-> 0,
   storage_size_bytes |-> 0, indexes |-> 3, index_size_bytes |-> 0]

Failure == Raise("Database connection failed")

CountResults == { Failure } \cup { Some(n) : n \in 0..MaxCount }

StatsEnvs ==
  { <<client, countries, states, cities, stats>> :
      client \in { Failure, Some("client") },
      countries \in CountResults, states \in CountResults,
      cities \in CountResults,
      stats \in { Failure, Some(DbStats) } }

\* GET /health, answered before the next request is taken
Health ==
  \E db_status \in PingResults, env \in StatsEnvs :
    /\ call.op = "none"
    /\ call' = [op |-> "health", db |-> db_status, env |-> env,
                result |-> health(db_status, env, now)]
    /\ UNCHANGED <<users, nextId, nextSalt, now, held, hashed, inflight, secret>>

(***************************************************************************)
(* The record of a token's subject comes and goes; the process is started  *)
(* again with another secret.                                              *)
(***************************************************************************)
SubjectEmail == <<"a", "@", "x">>

CreateSubject == CreateUserFrom({SubjectEmail}, {<<"u", "1">>})

\* dbc.delete(USERS_COLLECTION, {EMAIL: email}), as the test fixtures call it
DeleteSubject ==
  /\ users' = delete(users, "email", SubjectEmail)
  /\ users' # users
  /\ call' = [op |-> "delete", email |-> SubjectEmail]
  /\ UNCHANGED <<nextId, nextSalt, now, held, hashed, inflight, secret>>

\* the module is loaded again with JWT_SECRET set to another value
Restart ==
  /\ secret' \in {DEFAULT_SECRET, OTHER_KEY} \ {secret}
  /\ call' = [op |-> "restart"]
  /\ UNCHANGED <<users, nextId, nextSalt, now, held, hashed, inflight>>

\* authenticate_user on the records so stored
AuthenticateStored == AuthenticateWith(StoreEmails, Passwords, {0})

\* authenticate_user with the strings registration is offered
AuthenticateRegistered ==
  AuthenticateWith(Texts(RegisterEmails), Texts(RegisterPasswords), {0})

\* the user store and authentication
Next ==
  \/ Tick
  \/ CreateUser
  \/ Authenticate

Spec == Init /\ [][Next]_vars

\* the token service
TokenNext ==
  \/ Tick
  \/ GenerateToken
  \/ ValidateHeld
  \/ ValidateTamperedPayload
  \/ ValidateTamperedSignature
  \/ ValidateCrafted
  \/ VerifyHeader

TokenSpec == Init /\ [][TokenNext]_vars

\* the account validators
ValidatorNext ==
  \/ ValidateEmail
  \/ ValidateUsername
  \/ ValidatePassword

ValidatorSpec == Init /\ [][ValidatorNext]_vars

\* the store on its own
StoreNext ==
  \/ CreateUserDirect
  \/ GetUserByEmail
  \/ GetUserById
  \/ AuthenticateStored

StoreSpec == Init /\ [][StoreNext]_vars

\* issued tokens while the store and the secret change
SessionNext ==
  \/ Tick
  \/ GenerateToken
  \/ ValidateHeld
  \/ CreateSubject
  \/ DeleteSubject
  \/ Restart

SessionSpec == Init /\ [][SessionNext]_vars

\* accounts and the login endpoint
LoginNext ==
  \/ CreateUser
  \/ Login

LoginSpec == Init /\ [][LoginNext]_vars

\* the health endpoint
HealthNext ==
  \/ Tick
  \/ Health

HealthSpec == Init /\ [][HealthNext]_vars

\* create_user called by several callers at once
ConcurrentNext ==
  \E p \in Procs :
    \/ BeginCreateUser(p)
    \/ EndCreateUser(p)

ConcurrentSpec == Init /\ [][ConcurrentNext]_vars

\* registration and login
RegisterNext ==
  \/ Register
  \/ AuthenticateRegistered

RegisterSpec == Init /\ [][RegisterNext]_vars

(***************************************************************************)
(* Properties of authenticate_user (under Spec).                           *)
(***************************************************************************)
IsAuth == call.op = "authenticate_user"

\* the stored documents whose email is the normalized form of the argument
StoredFor(email) ==
  { i \in 1..Len(users) : users[i].email = Strip(Lower(email)) }

WrongPassword(i, password) ==
  users[i].password # hashpw(password, users[i].password.salt)

\* C1: authenticate_user returns None when no record exists for the email,
\* and the same None when a record exists and the password does not match
\* its stored hash.
AuthFailureIsNone ==
  IsAuth =>
    /\ StoredFor(call.email) = {} => call.result = None
    /\ \A i \in StoredFor(call.email) :
         WrongPassword(i, call.password) => call.result = None

AuthFailureIsNone_Witness ==
  /\ IsAuth
  /\ \E i \in StoredFor(call.email) : WrongPassword(i, call.password)
  /\ call.result = None

\* C2: the user data of a successful authenticate_user has no password
\* field and has every other field of the stored record with the stored
\* value (the id in its string form).
AuthSanitized ==
  IsAuth /\ call.result # None =>
    \E i \in StoredFor(call.email) :
      LET data == call.result.val.user_data
      IN /\ "password" \notin DOMAIN data
         /\ DOMAIN data = DOMAIN users[i] \ {"password"}
         /\ data._id = ObjectIdStr(users[i]._id)
         /\ \A k \in DOMAIN data \ {"_id"} : data[k] = users[i][k]

AuthSanitized_Witness ==
  /\ IsAuth
  /\ call.result # None
  /\ call.result.val.user_data.username \in Usernames

\* C3: the payload of the token of a successful authenticate_user has the
\* stored record's id as user_id and the stored record's email as email,
\* for every spelling of the email argument.
AuthTokenNamesRecord ==
  IsAuth /\ call.result # None =>
    \E i \in StoredFor(call.email) :
      LET payload == call.result.val.token[2].bytes
      IN /\ payload.user_id = StrClaim(ObjectIdStr(users[i]._id))
         /\ payload.email = StrClaim(users[i].email)

(***************************************************************************)
(* Properties of the token service (under TokenSpec).                      *)
(***************************************************************************)
IsValidate == call.op = "validate_token"

\* the expiry a token string carries, in clock ticks
ExpiryOf(token) == token[2].bytes.exp.v * TicksPerSecond

\* a three-segment token signed with the process secret whose payload has
\* the four claims, the two times as integers
WellFormed(token) ==
  /\ Len(token) = 3
  /\ \A i \in 1..3 : token[i] # NotBase64
  /\ token[1].bytes = JwtHeader
  /\ token[3].bytes = hmac_sha256(SECRET_KEY, <<token[1], token[2]>>)
  /\ IsPayload(token[2].bytes)
  /\ token[2].bytes.exp.t = "int"
  /\ token[2].bytes.iat.t = "int"
  /\ token[2].bytes.user_id.t = "str"
  /\ token[2].bytes.email.t = "str"

\* C4: validate_token(generate_token(user_id, email, ttl)) with ttl > 0, at
\* any time strictly before the expiry the token carries, returns a payload
\* whose user_id and email are the arguments.
RoundTrip ==
  /\ IsValidate
  /\ call.src = "held"
  /\ call.of.val.expires_in > 0
  /\ call.at < ExpiryOf(call.token)
  => /\ call.result.kind = "Some"
     /\ call.result.val.user_id = StrClaim(call.of.val.user_id)
     /\ call.result.val.email = StrClaim(call.of.val.email)

RoundTrip_Witness ==
  /\ IsValidate
  /\ call.src = "held"
  /\ call.of.val.expires_in > 0
  /\ call.at < ExpiryOf(call.token)
  /\ call.at > call.of.val.issued_at
  /\ call.result.kind = "Some"
  /\ call.result.val.email = StrClaim(<<"A", "@", "X">>)

\* C5 as stated: an issued token with any one character of its payload
\* segment or of its signature segment replaced by another is rejected.
TamperRejected ==
  IsValidate /\ call.src \in {"payload", "signature"} => call.result = None

\* the replacement left the bytes the signature segment decodes to unchanged
SameSignatureBytes ==
  /\ call.token[3] # NotBase64
  /\ call.token[3].bytes = call.of.val.token[3].bytes

\* C5 as amended: an issued token with one character of its payload segment
\* replaced is rejected, and so is one with a character of its signature
\* segment replaced unless the segment still decodes to the same bytes.
TamperRejectedUnlessSameBytes ==
  /\ IsValidate /\ call.src = "payload" => call.result = None
  /\ IsValidate /\ call.src = "signature" /\ ~SameSignatureBytes
       => call.result = None

TamperRejected_Witness ==
  /\ IsValidate
  /\ call.src = "payload"
  /\ call.token[2] # NotBase64
  /\ IsPayload(call.token[2].bytes)
  /\ call.token[2].bytes # call.of.val.token[2].bytes
  /\ call.at < ExpiryOf(call.of.val.token)
  /\ call.at < ExpiryOf(call.token)
  /\ call.result = None

ValidateNeverRaises ==
  IsValidate => call.result.kind # "Raise"

\* C8: every payload validate_token returns has the four claims user_id,
\* email, iat and exp; a token signed with the secret that lacks one is
\* rejected.
ReturnedPayloadComplete ==
  IsValidate /\ call.result.kind = "Some" =>
    \A k \in {"user_id", "email", "iat", "exp"} : call.result.val[k] # Absent

(***************************************************************************)
(* Properties of verify_token_header (under TokenSpec).                    *)
(***************************************************************************)
IsVerify == call.op = "verify_token_header"

IsBearer(word) == Lower(word) = <<"b", "e", "a", "r", "e", "r">>

\* the header is a scheme spelled bearer in any case, one space, the token
ExactBearer(header) ==
  /\ Len(header) = 8
  /\ IsBearer(SubSeq(header, 1, 6))
  /\ header[7] = " "
  /\ header[8] = TOK

\* C9: verify_token_header returns validate_token(token) for the header
\* "Bearer <token>" with the scheme in any letter case, and None for
\* "Token <token>", for the empty string and for a bare token.
HeaderBearer ==
  IsVerify =>
    /\ ExactBearer(call.header)
         => call.result = validate_token(call.token, call.at)
    /\ call.header \in { <<"T", "o", "k", "e", "n", " ", TOK>>, <<>>, <<TOK>> }
         => call.result = None

HeaderBearer_Witness ==
  /\ IsVerify
  /\ call.header = <<"b", "e", "a", "r", "e", "r", " ", TOK>>
  /\ call.result.kind = "Some"

\* C10: verify_token_header returns a payload only for a header that is
\* exactly the scheme, one space and the token.
HeaderExactOnly ==
  IsVerify /\ call.result.kind = "Some" => ExactBearer(call.header)

(***************************************************************************)
(* Properties of the validators (under ValidatorSpec).                     *)
(***************************************************************************)
\* the message of the first rule that fails, "" when none does
FirstFailure(rules) ==
  LET failing == { i \in DOMAIN rules : rules[i].fails }
  IN IF failing = {} THEN ""
     ELSE rules[CHOOSE i \in failing : \A j \in failing : i <= j].msg

Rule(fails, msg) == [fails |-> fails, msg |-> msg]

\* the verdict a list of rules asks for
Follows(result, rules) ==
  /\ result.valid = (FirstFailure(rules) = "")
  /\ result.msg = FirstFailure(rules)

IsValidatePassword == call.op = "validate_password" /\ call.arg.t = "str"

PasswordRules(p) ==
  << Rule(Len(p) = 0, "Password is required"),
     Rule(Len(p) < 8, "Password must be at least 8 characters"),
     Rule(Len(p) > 128, "Password must be at most 128 characters"),
     Rule(\A i \in 1..Len(p) : p[i] \notin UpperLetters,
          "Password must contain at least one uppercase letter"),
     Rule(\A i \in 1..Len(p) : p[i] \notin LowerLetters,
          "Password must contain at least one lowercase letter"),
     Rule(\A i \in 1..Len(p) : p[i] \notin Digits,
          "Password must contain at least one number") >>

\* C15: validate_password accepts exactly the strings of length 8..128 with
\* an uppercase letter, a lowercase letter and a digit, and rejects with the
\* reason of the first failing rule in the order missing, too short, too
\* long, no uppercase, no lowercase, no digit.
PasswordRule ==
  IsValidatePassword => Follows(call.result, PasswordRules(call.arg.v))

PasswordRule_Witness ==
  /\ IsValidatePassword
  /\ Len(call.arg.v) = 128
  /\ call.result = Verdict(FALSE, "Password must contain at least one number")

IsValidateEmail == call.op = "validate_email" /\ call.arg.t = "str"

\* local@domain.tld: one "@", a non-empty local part, after it a non-empty
\* domain, the last "." and at least two letters
EmailShape(e) ==
  LET ats == { i \in 1..Len(e) : e[i] = "@" }
      dots == { j \in 1..Len(e) : e[j] = "." }
  IN /\ Cardinality(ats) = 1
     /\ LET i == CHOOSE i \in ats : TRUE
            after == { j \in dots : j > i }
        IN /\ i > 1
           /\ AllIn(e, 1, i - 1, EmailLocalChars)
           /\ after # {}
           /\ LET j == CHOOSE j \in after : \A k \in after : k <= j
              IN /\ j > i + 1
                 /\ AllIn(e, i + 1, j - 1, EmailDomainChars)
                 /\ Len(e) - j >= 2
                 /\ AllIn(e, j + 1, Len(e), UpperLetters \cup LowerLetters)

EmailRules(missing, e) ==
  << Rule(missing, "Email is required"),
     Rule(Len(e) < 3 \/ Len(e) > 254,
          "Email must be between 3 and 254 characters"),
     Rule(~EmailShape(e), "Invalid email format") >>

\* C16: validate_email accepts exactly the inputs that after trimming are
\* non-empty, of length 3..254 and of the shape local@domain.tld, and
\* rejects with the reason of the first failing rule in the order missing,
\* length, pattern, an input that is empty after trimming being missing.
EmailRule ==
  IsValidateEmail =>
    Follows(call.result,
            EmailRules(Strip(call.arg.v) = <<>>, Strip(call.arg.v)))

\* the same with only the empty string missing
EmailRuleAsWritten ==
  IsValidateEmail =>
    Follows(call.result, EmailRules(call.arg.v = <<>>, Strip(call.arg.v)))

IsValidateUsername == call.op = "validate_username" /\ call.arg.t = "str"

UsernameRules(raw, u) ==
  << Rule(raw = <<>>, "Username is required"),
     Rule(Len(u) < 3 \/ Len(u) > 30,
          "Username must be between 3 and 30 characters"),
     Rule(\E i \in 1..Len(u) :
            u[i] \notin UpperLetters \cup LowerLetters \cup Digits \cup {"_"},
          "Username can only contain letters, numbers, and underscores") >>

\* C17: validate_username accepts exactly the inputs whose trimmed form has
\* length 3..30 and only ASCII letters, digits and underscores, and rejects
\* with the reason of the first failing rule in the order missing, length,
\* character set.
UsernameRule ==
  IsValidateUsername =>
    Follows(call.result, UsernameRules(call.arg.v, Strip(call.arg.v)))

UsernameRule_Witness ==
  /\ IsValidateUsername
  /\ Len(call.arg.v) > 30
  /\ Len(Strip(call.arg.v)) = 30
  /\ call.result = Verdict(TRUE, "")

IsValidator ==
  call.op \in {"validate_email", "validate_username", "validate_password"}

RequiredMessage ==
  CASE call.op = "validate_email" -> "Email is required"
    [] call.op = "validate_username" -> "Username is required"
    [] OTHER -> "Password is required"

\* C18: each validator returns a (bool, reason) pair for every input, a
\* string or not, and never raises; the empty string and the non-strings
\* are rejected as required; the reason is "" exactly when the input is
\* valid.
ValidatorsTotal ==
  IsValidator =>
    /\ DOMAIN call.result = {"valid", "msg"}
    /\ call.result.valid \in BOOLEAN
    /\ call.result.valid = (call.result.msg = "")
    /\ call.arg.t # "str" \/ call.arg = PyStr(<<>>)
         => call.result = Verdict(FALSE, RequiredMessage)

ValidatorsTotal_Witness ==
  /\ call.op = "validate_email"
  /\ call.arg = PyInt(7)
  /\ call.result = Verdict(FALSE, "Email is required")

(***************************************************************************)
(* Properties of registration (under RegisterSpec).                        *)
(***************************************************************************)
RegisterRules(email, username, password) ==
  << Rule(~validate_email(email).valid, validate_email(email).msg),
     Rule(~validate_username(username).valid, validate_username(username).msg),
     Rule(~validate_password(password).valid, validate_password(password).msg) >>

PassesValidation(c) ==
  FirstFailure(RegisterRules(c.email, c.username, c.password)) = ""

\* C11: registration returns the reason of the first failing validator in
\* the order email, username, password, and on a validation failure calls
\* neither hash_password nor create_user: the store is unchanged.
RegisterValidatesFirst ==
  [][ call'.op = "register" /\ ~PassesValidation(call') =>
        /\ call'.result =
             Response(400, [error |->
               FirstFailure(RegisterRules(call'.email, call'.username,
                                          call'.password))])
        /\ UNCHANGED <<users, nextId, nextSalt, hashed>> ]_vars

RegisterValidatesFirst_Witness ==
  /\ call.op = "register"
  /\ validate_email(call.email).valid
  /\ ~validate_username(call.username).valid
  /\ ~validate_password(call.password).valid
  /\ call.result.body.error = validate_username(call.username).msg
  /\ Len(users) = 1
  /\ Len(hashed) = 1

\* what a caller can tell of a response without reading its texts
OutcomeKind(response) == <<response.status, DOMAIN response.body>>

ValidationFailureKinds ==
  { OutcomeKind(register(<<>>, e, u, p, 1, 1, 0).response) :
      e \in RegisterEmails, u \in RegisterUsernames,
      p \in { q \in RegisterPasswords : ~validate_password(q).valid } }

\* C12: a registration that passes validation and finds the email or the
\* username taken has an outcome of a kind no validation failure has.
RegisterConflictDistinct ==
  [][ /\ call'.op = "register"
      /\ PassesValidation(call')
      /\ \/ user_exists_email(users, call'.email.v)
         \/ user_exists_username(users, call'.username.v)
      => OutcomeKind(call'.result) \notin ValidationFailureKinds ]_vars

(***************************************************************************)
(* Properties of the store (under StoreSpec).                              *)
(***************************************************************************)
StoredEmail(coll, email) ==
  \E i \in DOMAIN coll : coll[i].email = Strip(Lower(email))

StoredUsername(coll, username) ==
  \E i \in DOMAIN coll : coll[i].username = Strip(username)

NoDuplicates(coll) ==
  \A i, j \in DOMAIN coll :
    i < j => /\ coll[i].email # coll[j].email
             /\ coll[i].username # coll[j].username

\* C13: create_user raises 'already exists' when the normalized email is
\* stored, otherwise 'already taken' when the trimmed username is stored,
\* leaving the store unchanged in both cases; so no two stored records
\* share a normalized email or a username.
CreateUserUnique ==
  [][ call'.op = "create_user" =>
        /\ StoredEmail(users, call'.email) =>
             /\ call'.result = Raise("ValueError: already exists")
             /\ users' = users
        /\ ~StoredEmail(users, call'.email)
             /\ StoredUsername(users, call'.username) =>
             /\ call'.result = Raise("ValueError: already taken")
             /\ users' = users
        /\ NoDuplicates(users') ]_vars

\* C14: after create_user(e, u, h) succeeds, get_user_by_email returns that
\* record, with the normalized email, for every spelling with the same
\* lower-cased, trimmed form; for an email with no record it returns None.
EmailLookup ==
  /\ call.op = "create_user" /\ call.result.kind = "Some" =>
       \A e2 \in StoreEmails :
         Strip(Lower(e2)) = Strip(Lower(call.email)) =>
           /\ get_user_by_email(users, e2) = call.result
           /\ call.result.val.email = Strip(Lower(call.email))
  /\ call.op = "get_user_by_email" =>
       /\ (call.result = None) = ~StoredEmail(users, call.email)
       /\ call.result # None =>
            call.result.val.email = Strip(Lower(call.email))

(***************************************************************************)
(* Properties of password hashing (under RegisterSpec).                    *)
(***************************************************************************)
AcceptedPasswords ==
  { p \in Texts(RegisterPasswords) : validate_password(PyStr(p)).valid }

\* the plaintexts whose hash is the one stored for the email
RegisteredPasswords(email) ==
  { hashed[i].password :
      i \in { k \in DOMAIN hashed :
                read_one(users, "email", Strip(Lower(email))) =
                  Some([read_one(users, "email", Strip(Lower(email))).val
                          EXCEPT !.password = hashed[k].hash]) } }

\* C19: an accepted password verifies against its own hash and no other
\* accepted password does, so authentication succeeds with the registered
\* password only.
PasswordVerification ==
  /\ \A i \in DOMAIN hashed : \A p2 \in AcceptedPasswords :
       checkpw(p2, hashed[i].hash) = (p2 = hashed[i].password)
  /\ call.op = "authenticate_user" /\ call.result # None =>
       RegisteredPasswords(call.email) = { call.password }

\* C20: the salts of the hash_password calls are pairwise different; two
\* calls on one plaintext return different hashes and it verifies against
\* both.
FreshSalts ==
  \A i, j \in DOMAIN hashed :
    i < j =>
      /\ hashed[i].hash.salt # hashed[j].hash.salt
      /\ hashed[i].password = hashed[j].password =>
           /\ hashed[i].hash # hashed[j].hash
           /\ checkpw(hashed[i].password, hashed[i].hash)
           /\ checkpw(hashed[i].password, hashed[j].hash)

FreshSalts_Witness ==
  /\ Len(hashed) = 2
  /\ hashed[1].password = hashed[2].password
  /\ hashed[1].hash # hashed[2].hash

(***************************************************************************)
(* Properties of the later claims.                                         *)
(***************************************************************************)
\* C21: authenticate_user on a record whose stored password is not a
\* well-formed hash returns None and does not raise (under StoreSpec).
AuthMalformedHashIsNone ==
  IsAuth /\ (\E i \in StoredFor(call.email) : InvalidSalt(users[i].password))
    => call.result = None

\* C22: the payload of an issued token has issued_at equal to the issuance
\* time and expires_at equal to that time plus ttl, so that expires_at -
\* issued_at = ttl, also when the clock advances while the token is built
\* (under TokenSpec).
LifetimeIsTtl ==
  held # None =>
    LET payload == held.val.token[2].bytes
    IN /\ payload.iat = IntClaim(Timestamp(held.val.issued_at))
       /\ payload.exp.v - payload.iat.v = held.val.expires_in

\* C23: for every interleaving of concurrent create_user calls the store
\* never holds two records with the same normalized email or the same
\* username (under ConcurrentSpec).
ConcurrentUnique == NoDuplicates(users)

\* the record of the subject of the held token is in the store
SubjectStored ==
  \E i \in DOMAIN users : ObjectIdStr(users[i]._id) = held.val.user_id

\* C24: the result of validate_token on an issued token is determined by
\* the token, the secret and the time: it is the token's payload when the
\* token is signed with the process secret and not expired, and None
\* otherwise, whatever records the user store holds (under SessionSpec).
StatelessValidation ==
  IsValidate /\ call.src = "held" =>
    IF call.token[3].bytes.key = secret /\ call.at < ExpiryOf(call.token)
      THEN call.result = Some(call.token[2].bytes)
      ELSE call.result = None

StatelessValidation_Witness ==
  /\ IsValidate
  /\ call.src = "held"
  /\ call.result.kind = "Some"
  /\ nextId > 1
  /\ ~SubjectStored

\* C25: no operation of a running process changes the secret, and a token
\* signed under a secret other than the process secret is rejected, as is
\* every token issued before the secret was changed (under SessionSpec).
SecretFixed ==
  [][ /\ call'.op # "restart" => secret' = secret
      /\ call'.op = "validate_token"
           /\ call'.token[3].bytes.key # secret'
           => call'.result = None ]_vars

SecretFixed_Witness ==
  /\ IsValidate
  /\ call.src = "held"
  /\ call.token[3].bytes.key # secret
  /\ call.at < ExpiryOf(call.token)
  /\ call.result = None

GetByIdTotal ==
  call.op = "get_user_by_id" =>
    LET found == { i \in DOMAIN users :
                     ObjectIdStr(users[i]._id) = call.user_id }
    IN /\ call.result.kind \in {"None", "Some"}
       /\ \A i \in found : call.result = Some(convert_mongo_id(users[i]))
       /\ found = {} => call.result = None

GetByIdTotal_Witness ==
  /\ call.op = "get_user_by_id"
  /\ Len(users) = 2
  /\ call.result = Some(convert_mongo_id(users[2]))

\* the other cases of C27: an invalid string and an id with no record
GetByIdAbsent_Witness ==
  /\ call.op = "get_user_by_id"
  /\ Len(users) = 1
  /\ call.user_id \in { <<"0", "x">>, ObjectIdStr(2) }
  /\ call.result = None

\* C28: every authenticate_user call, successful or failed, leaves the
\* user store as it was (under Spec).
AuthReadOnly ==
  [][ call'.op = "authenticate_user" =>
        UNCHANGED <<users, nextId, nextSalt, hashed>> ]_vars

AuthReadOnly_Witness ==
  /\ IsAuth
  /\ call.result.kind = "Some"
  /\ Len(users) = 2
  /\ \E i \in DOMAIN users : users[i].updated_at < call.at

\* C29: the login endpoint responds 200 with the token and the sanitized
\* user when authenticate_user succeeds, and otherwise 401 with the body
\* {'error': 'Invalid credentials'}: for an unknown email, for a wrong
\* password and for a request without the email or the password field
\* (under LoginSpec).
LoginUniform ==
  call.op = "login" =>
    IF /\ call.email.t = "str"
       /\ call.password.t = "str"
       /\ \E i \in StoredFor(call.email.v) :
            ~WrongPassword(i, call.password.v)
      THEN /\ call.result.status = 200
           /\ DOMAIN call.result.body = {"token", "user"}
           /\ "password" \notin DOMAIN call.result.body.user
      ELSE call.result = Response(401, [error |-> "Invalid credentials"])

\* the same for requests that carry both fields
LoginUniformWithFields ==
  call.op = "login" /\ call.email.t = "str" /\ call.password.t = "str"
    => LoginUniform

\* C30: after a registration succeeded, authenticate_user with the
\* registered password succeeds for every spelling of the email with the
\* same lower-cased, trimmed form, and the token it returns validates,
\* before its expiry, to a payload whose user_id is the id the registration
\* returned (under RegisterSpec).
RegisterThenLogin ==
  /\ IsAuth
  /\ StoredFor(call.email) # {}
  /\ call.password \in RegisteredPasswords(call.email)
  => /\ call.result.kind = "Some"
     /\ \A i \in StoredFor(call.email) : \A t \in call.at..MaxClock :
          LET payload == validate_token(call.result.val.token, t)
          IN /\ t < ExpiryOf(call.result.val.token)
             /\ payload.kind = "Some"
             /\ payload.val.user_id = StrClaim(ObjectIdStr(users[i]._id))

RegisterThenLogin_Witness ==
  /\ IsAuth
  /\ StoredFor(call.email) # {}
  /\ call.password \in RegisteredPasswords(call.email)
  /\ call.result.kind = "Some"
  /\ \E i \in StoredFor(call.email) :
       /\ users[i].email # call.email
       /\ i = 2

====
